---- MODULE Spec2Model ----
(***************************************************************************)
(* Model of netw/eth/eth.go: the ethernet-interface namespace.             *)
(*                                                                         *)
(* Two specifications:                                                     *)
(*   SpecXform  the normalizer / specifier pair of each schema variant,    *)
(*              applied to bounded sets of wire objects and Entry records; *)
(*   Spec       the Eth manager (Get, Show, ShowList, GetList, Set, Edit,   *)
(*              Delete) against a transport whose replies are inputs.      *)
(*                                                                         *)
(* Go pointers are modelled as sequences of length at most one: <<>> is    *)
(* nil and <<x>> points to x.  A Go map[string]string is a function whose  *)
(* domain is the set of keys present, with a flag telling the nil map      *)
(* (reads find nothing, a write panics) from an allocated one.             *)
(***************************************************************************)
EXTENDS Integers, Sequences, FiniteSets, TLC

VARIABLES
    xvariant,   \* SpecXform: the schema variant under test, "v1" or "v2"
    xwire,      \* SpecXform: pointer to the wire object given to Normalize
    xentry,     \* SpecXform: pointer to the Entry (given, or returned by Normalize)
    xout,       \* SpecXform: pointer to the wire object returned by specify
    xpanic,     \* SpecXform: Normalize ended in a run-time panic
    xstage,     \* SpecXform: "start", "normalized", "panic", "specified"
    version,    \* Spec: the version the device reports (c.con.Versioning())
    op,         \* Spec: the last operation called on the manager
    args,       \* Spec: the arguments of that call
    variant,    \* Spec: pointer to the variant that call selected
    calls,      \* Spec: the transport calls that call made, in order
    ret         \* Spec: what that call returned

xvars == <<xvariant, xwire, xentry, xout, xpanic, xstage>>
mvars == <<version, op, args, variant, calls, ret>>
vars == <<xvariant, xwire, xentry, xout, xpanic, xstage,
          version, op, args, variant, calls, ret>>

(***************************************************************************)
(* Bounds of the model.                                                    *)
(***************************************************************************)
\* DHCP default-route metrics range over 0..MaxMetric.
MaxMetric == 1
\* Static address lists have at most MaxIps addresses.
MaxIps == 1
\* Set takes at most MaxBatch records, Delete at most MaxBatch identifiers.
MaxBatch == 2

(***************************************************************************)
(* Pointers.                                                               *)
(***************************************************************************)
Nil == <<>>
Ptr(x) == <<x>>

(***************************************************************************)
(* The external util helpers, by their contract.                           *)
(***************************************************************************)
\* util.AsBool: the wire string "yes" is true, anything else false.
AsBool(s) == s = "yes"

\* util.YesNo: a native bool as the wire string "yes" / "no".
YesNo(b) == IF b THEN "yes" ELSE "no"

\* util.EntToStr: a wire address list (pointer) as a sequence of strings.
EntToStr(p) == IF p = Nil THEN <<>> ELSE p[1]

\* util.StrToEnt: a sequence of strings as a wire address list (pointer).
StrToEnt(s) == IF s = <<>> THEN Nil ELSE Ptr(s)

\* The wrapper tags of the three kinds of opaque sub-tree.
OpenTag == [arp |-> "<arp>", units |-> "<units>", address |-> "<address>"]
CloseTag == [arp |-> "</arp>", units |-> "</units>", address |-> "</address>"]

\* A sub-tree's raw text is a sequence of tokens: wrapper, body, wrapper.
Wrap(tag, body) == <<OpenTag[tag]>> \o body \o <<CloseTag[tag]>>

\* util.CleanRawXml: the raw text without its enclosing wrapper tag.
CleanRawXml(text) == IF Len(text) >= 2 THEN SubSeq(text, 2, Len(text) - 1) ELSE text

\* util.RawXml{Text}
RawXml(text) == [Text |-> text]

(***************************************************************************)
(* Entry, the normalized record (eth.go 17-40).                            *)
(***************************************************************************)
Modes == <<"layer3", "layer2", "virtual-wire", "tap", "ha", "decrypt-mirror",
           "aggregate-group">>

ModeSet == {Modes[i] : i \in 1..Len(Modes)}

EmptyRaw == [k \in {} |-> <<>>]

\* The zero value of Entry: every field zero, raw the nil map.
ZeroEntry ==
    [Name |-> "", Mode |-> "", StaticIps |-> <<>>, EnableDhcp |-> FALSE,
     CreateDhcpDefaultRoute |-> FALSE, DhcpDefaultRouteMetric |-> 0,
     Ipv6Enabled |-> FALSE, ManagementProfile |-> "", Mtu |-> 0,
     AdjustTcpMss |-> FALSE, NetflowProfile |-> "", LldpEnabled |-> FALSE,
     LldpProfile |-> "", LinkSpeed |-> "", LinkDuplex |-> "", LinkState |-> "",
     AggregateGroup |-> "", Comment |-> "", Ipv4MssAdjust |-> 0,
     Ipv6MssAdjust |-> 0, rawNil |-> TRUE, raw |-> EmptyRaw]

\* text, present := e.raw[key]
RawPresent(e, key) == key \in DOMAIN e.raw

\* ans.raw[key] = text, on the state st = [panic, ans] of a running Normalize:
\* an assignment to an entry of a nil map panics; after a panic nothing runs.
RawAssign(st, key, text) ==
    IF st.panic THEN st
    ELSE IF st.ans.rawNil THEN [st EXCEPT !.panic = TRUE]
    ELSE [st EXCEPT !.ans.raw =
              [k \in DOMAIN @ \cup {key} |-> IF k = key THEN text ELSE @[k]]]

(***************************************************************************)
(* The wire structs (eth.go 282-328, 394-422).                             *)
(***************************************************************************)
emptyMode == [empty |-> TRUE]

\* entry_v1 / entry_v2 with no mode sub-object and zero link fields.
ZeroWire ==
    [Name |-> "", ModeL3 |-> Nil, ModeL2 |-> Nil, ModeVwire |-> Nil,
     TapMode |-> Nil, HaMode |-> Nil, DecryptMirrorMode |-> Nil,
     AggregateGroupMode |-> Nil, LinkSpeed |-> "", LinkDuplex |-> "",
     LinkState |-> "", Comment |-> ""]

(***************************************************************************)
(* Normalize (eth.go 225-280, 334-392).  The running function is the pair  *)
(* st = [panic, ans]; it returns st.ans unless st.panic.                   *)
(***************************************************************************)
\* The struct literal both Normalize functions start from (226-232, 335-341).
NormalizeLink(o) ==
    [ZeroEntry EXCEPT !.Name = o.Name, !.LinkSpeed = o.LinkSpeed,
                      !.LinkDuplex = o.LinkDuplex, !.LinkState = o.LinkState,
                      !.Comment = o.Comment]

\* if o.Answer.ModeL3.Dhcp != nil { ... } (242-246, 354-358)
NormalizeDhcp(ans, m) ==
    IF m.Dhcp # Nil
    THEN [ans EXCEPT !.EnableDhcp = AsBool(m.Dhcp[1].Enable),
                     !.CreateDhcpDefaultRoute = AsBool(m.Dhcp[1].CreateDefaultRoute),
                     !.DhcpDefaultRouteMetric = m.Dhcp[1].Metric]
    ELSE ans

\* The three captures of the layer3 case (247-255, 359-367).
NormalizeL3Raw(st, m) ==
    LET s1 == IF m.Arp # Nil
              THEN RawAssign(st, "arp", CleanRawXml(m.Arp[1].Text)) ELSE st
        s2 == IF m.Subinterface # Nil
              THEN RawAssign(s1, "l3subinterface", CleanRawXml(m.Subinterface[1].Text))
              ELSE s1
        s3 == IF m.Ipv6.Address # Nil
              THEN RawAssign(s2, "ipv6", CleanRawXml(m.Ipv6.Address[1].Text))
              ELSE s2
    IN  s3

\* case o.Answer.ModeL3 != nil of container_v1.Normalize (234-255)
NormalizeL3_v1(ans, m) ==
    LET a1 == [ans EXCEPT !.Mode = "layer3",
                          !.Ipv6Enabled = AsBool(m.Ipv6.Enabled),
                          !.ManagementProfile = m.ManagementProfile,
                          !.Mtu = m.Mtu,
                          !.NetflowProfile = m.NetflowProfile,
                          !.AdjustTcpMss = AsBool(m.AdjustTcpMss),
                          !.StaticIps = EntToStr(m.StaticIps)]
    IN  NormalizeL3Raw([panic |-> FALSE, ans |-> NormalizeDhcp(a1, m)], m)

\* case o.Answer.ModeL3 != nil of container_v2.Normalize (344-367)
NormalizeL3_v2(ans, m) ==
    LET a1 == [ans EXCEPT !.Mode = "layer3",
                          !.Ipv6Enabled = AsBool(m.Ipv6.Enabled),
                          !.ManagementProfile = m.ManagementProfile,
                          !.Mtu = m.Mtu,
                          !.NetflowProfile = m.NetflowProfile,
                          !.AdjustTcpMss = AsBool(m.AdjustTcpMss),
                          !.Ipv4MssAdjust = m.Ipv4MssAdjust,
                          !.Ipv6MssAdjust = m.Ipv6MssAdjust,
                          !.StaticIps = EntToStr(m.StaticIps)]
    IN  NormalizeL3Raw([panic |-> FALSE, ans |-> NormalizeDhcp(a1, m)], m)

\* case o.Answer.ModeL2 != nil (256-263, 368-375)
NormalizeL2(ans, m) ==
    LET a1 == [ans EXCEPT !.Mode = "layer2",
                          !.LldpEnabled = AsBool(m.LldpEnabled),
                          !.LldpProfile = m.LldpProfile,
                          !.NetflowProfile = m.NetflowProfile]
        st == [panic |-> FALSE, ans |-> a1]
    IN  IF m.Subinterface # Nil
        THEN RawAssign(st, "l2subinterface", CleanRawXml(m.Subinterface[1].Text))
        ELSE st

\* case o.Answer.ModeVwire != nil (264-268, 376-380)
NormalizeVwire(ans, m) ==
    [panic |-> FALSE,
     ans |-> [ans EXCEPT !.Mode = "virtual-wire",
                         !.LldpEnabled = AsBool(m.LldpEnabled),
                         !.LldpProfile = m.LldpProfile,
                         !.NetflowProfile = m.NetflowProfile]]

\* The remaining cases of the switch: the four marker modes, or none.
NormalizeMarker(ans, o) ==
    [panic |-> FALSE,
     ans |-> CASE o.TapMode # Nil -> [ans EXCEPT !.Mode = "tap"]
               [] o.HaMode # Nil -> [ans EXCEPT !.Mode = "ha"]
               [] o.DecryptMirrorMode # Nil -> [ans EXCEPT !.Mode = "decrypt-mirror"]
               [] o.AggregateGroupMode # Nil -> [ans EXCEPT !.Mode = "aggregate-group"]
               [] OTHER -> ans]

\* Normalize_v1 testing the layer2 sub-object before the layer3 one.
Normalize_v1_l2first(o) ==
    LET ans == NormalizeLink(o)
    IN  CASE o.ModeL2 # Nil -> NormalizeL2(ans, o.ModeL2[1])
          [] o.ModeL3 # Nil -> NormalizeL3_v1(ans, o.ModeL3[1])
          [] o.ModeVwire # Nil -> NormalizeVwire(ans, o.ModeVwire[1])
          [] OTHER -> NormalizeMarker(ans, o)

\* func (o *container_v1) Normalize() Entry: ans.raw is never allocated.
Normalize_v1(o) ==
    LET ans == NormalizeLink(o)
    IN  CASE o.ModeL3 # Nil -> NormalizeL3_v1(ans, o.ModeL3[1])
          [] o.ModeL2 # Nil -> NormalizeL2(ans, o.ModeL2[1])
          [] o.ModeVwire # Nil -> NormalizeVwire(ans, o.ModeVwire[1])
          [] OTHER -> NormalizeMarker(ans, o)

\* func (o *container_v2) Normalize() Entry: ans.raw = make(map[string] string, 0).
Normalize_v2(o) ==
    LET ans == [NormalizeLink(o) EXCEPT !.rawNil = FALSE]
    IN  CASE o.ModeL3 # Nil -> NormalizeL3_v2(ans, o.ModeL3[1])
          [] o.ModeL2 # Nil -> NormalizeL2(ans, o.ModeL2[1])
          [] o.ModeVwire # Nil -> NormalizeVwire(ans, o.ModeVwire[1])
          [] OTHER -> NormalizeMarker(ans, o)

(***************************************************************************)
(* specify (eth.go 424-488, 490-556).                                      *)
(***************************************************************************)
\* The struct literal both specify functions start from (425-431, 491-497).
specifyLink(e) ==
    [ZeroWire EXCEPT !.Name = e.Name, !.LinkSpeed = e.LinkSpeed,
                     !.LinkDuplex = e.LinkDuplex, !.LinkState = e.LinkState,
                     !.Comment = e.Comment]

\* specifyDhcp with the metric left out of the condition.
specifyDhcp_noMetric(e) ==
    IF e.EnableDhcp \/ e.CreateDhcpDefaultRoute
    THEN Ptr([Enable |-> YesNo(e.EnableDhcp),
              CreateDefaultRoute |-> YesNo(e.CreateDhcpDefaultRoute),
              Metric |-> e.DhcpDefaultRouteMetric])
    ELSE Nil

\* i.Dhcp of the layer3 case (443-449, 511-517)
specifyDhcp(e) ==
    IF e.EnableDhcp \/ e.CreateDhcpDefaultRoute \/ e.DhcpDefaultRouteMetric # 0
    THEN Ptr([Enable |-> YesNo(e.EnableDhcp),
              CreateDefaultRoute |-> YesNo(e.CreateDhcpDefaultRoute),
              Metric |-> e.DhcpDefaultRouteMetric])
    ELSE Nil

\* if text, present := e.raw[key]; present { ... = &util.RawXml{text} }
specifyRaw(e, key) ==
    IF RawPresent(e, key) THEN Ptr(RawXml(e.raw[key])) ELSE Nil

\* case "layer3" of specify_v1 (434-459): the l3Mode_v1 built
specifyL3_v1(e) ==
    [Ipv6 |-> [Enabled |-> YesNo(e.Ipv6Enabled), Address |-> specifyRaw(e, "ipv6")],
     ManagementProfile |-> e.ManagementProfile,
     Mtu |-> e.Mtu,
     NetflowProfile |-> e.NetflowProfile,
     AdjustTcpMss |-> YesNo(e.AdjustTcpMss),
     StaticIps |-> StrToEnt(e.StaticIps),
     Dhcp |-> specifyDhcp(e),
     Arp |-> specifyRaw(e, "arp"),
     Subinterface |-> specifyRaw(e, "l3subinterface")]

\* case "layer3" of specify_v2 (500-527): the l3Mode_v2 built
specifyL3_v2(e) ==
    [Ipv6 |-> [Enabled |-> YesNo(e.Ipv6Enabled), Address |-> specifyRaw(e, "ipv6")],
     ManagementProfile |-> e.ManagementProfile,
     Mtu |-> e.Mtu,
     NetflowProfile |-> e.NetflowProfile,
     AdjustTcpMss |-> YesNo(e.AdjustTcpMss),
     Ipv4MssAdjust |-> e.Ipv4MssAdjust,
     Ipv6MssAdjust |-> e.Ipv6MssAdjust,
     StaticIps |-> StrToEnt(e.StaticIps),
     Dhcp |-> specifyDhcp(e),
     Arp |-> specifyRaw(e, "arp"),
     Subinterface |-> specifyRaw(e, "l3subinterface")]

\* case "layer2" (460-469, 528-537): the otherMode built
specifyL2(e) ==
    [LldpEnabled |-> YesNo(e.LldpEnabled),
     LldpProfile |-> e.LldpProfile,
     NetflowProfile |-> e.NetflowProfile,
     Subinterface |-> specifyRaw(e, "l2subinterface")]

\* specifyVwire re-attaching the layer2 units, as the layer2 case does.
specifyVwire_units(e) ==
    [LldpEnabled |-> YesNo(e.LldpEnabled),
     LldpProfile |-> e.LldpProfile,
     NetflowProfile |-> e.NetflowProfile,
     Subinterface |-> IF RawPresent(e, "l2subinterface")
                      THEN Ptr(RawXml(e.raw["l2subinterface"])) ELSE Nil]

\* case "virtual-wire" (470-476, 538-544): the otherMode built
specifyVwire(e) ==
    [LldpEnabled |-> YesNo(e.LldpEnabled),
     LldpProfile |-> e.LldpProfile,
     NetflowProfile |-> e.NetflowProfile,
     Subinterface |-> Nil]

\* The switch on e.Mode, given the layer3 sub-object of the variant.
specifySwitch(e, l3) ==
    LET ans == specifyLink(e)
    IN  CASE e.Mode = "layer3" -> [ans EXCEPT !.ModeL3 = Ptr(l3)]
          [] e.Mode = "layer2" -> [ans EXCEPT !.ModeL2 = Ptr(specifyL2(e))]
          [] e.Mode = "virtual-wire" -> [ans EXCEPT !.ModeVwire = Ptr(specifyVwire(e))]
          [] e.Mode = "tap" -> [ans EXCEPT !.TapMode = Ptr(emptyMode)]
          [] e.Mode = "ha" -> [ans EXCEPT !.HaMode = Ptr(emptyMode)]
          [] e.Mode = "decrypt-mirror" -> [ans EXCEPT !.DecryptMirrorMode = Ptr(emptyMode)]
          [] e.Mode = "aggregate-group" -> [ans EXCEPT !.AggregateGroupMode = Ptr(emptyMode)]
          [] OTHER -> ans

\* func specify_v1(e Entry) interface{}
specify_v1(e) == specifySwitch(e, specifyL3_v1(e))

\* func specify_v2(e Entry) interface{}
specify_v2(e) == specifySwitch(e, specifyL3_v2(e))

(***************************************************************************)
(* Inputs of SpecXform: the wire objects a device can answer with and the  *)
(* records a caller can hand to specify.                                   *)
(***************************************************************************)
\* Name and link fields: one interface with every field set, one with none.
Links ==
    {[Name |-> "ethernet1/1", LinkSpeed |-> "auto", LinkDuplex |-> "full",
      LinkState |-> "up", Comment |-> "uplink"],
     [Name |-> "ethernet1/2", LinkSpeed |-> "", LinkDuplex |-> "",
      LinkState |-> "", Comment |-> ""]}

YN == {"yes", "no"}

\* The cleaned body of each opaque sub-tree, by the key it is kept under.
RawBody ==
    [arp |-> <<"arp-entries">>, l3subinterface |-> <<"l3-units">>,
     ipv6 |-> <<"v6-addresses">>, l2subinterface |-> <<"l2-units">>]

VwireBody == <<"vwire-units">>

L3Keys == {"arp", "l3subinterface", "ipv6"}
L2Keys == {"l2subinterface"}

\* nil, or the sub-tree as the decoder stores it.
RawPtrs(tag, body) == {Nil, Ptr(RawXml(Wrap(tag, body)))}

AllIps == <<"10.0.0.1/24", "10.0.1.1/24", "10.0.2.1/24", "10.0.3.1/24">>

\* Non-empty address lists of at most MaxIps addresses.
IpLists == {SubSeq(AllIps, 1, n) : n \in 1..MaxIps}

\* The scalar layer-3 settings, as three representative combinations.
L3Scalars ==
    {[mp |-> "", mtu |-> 0, nf |-> "", adj |-> "no", v4 |-> 0, v6 |-> 0],
     [mp |-> "mgmt", mtu |-> 1500, nf |-> "nf3", adj |-> "yes", v4 |-> 40, v6 |-> 60],
     [mp |-> "mgmt", mtu |-> 0, nf |-> "", adj |-> "yes", v4 |-> 0, v6 |-> 60]}

DhcpPtrs ==
    {Nil} \cup {Ptr([Enable |-> a, CreateDefaultRoute |-> b, Metric |-> m]) :
                    a \in YN, b \in YN, m \in 0..MaxMetric}

\* l3Mode_v1 values
L3Modes_v1 ==
    {[Ipv6 |-> [Enabled |-> en, Address |-> ad],
      ManagementProfile |-> sc.mp, Mtu |-> sc.mtu, NetflowProfile |-> sc.nf,
      AdjustTcpMss |-> sc.adj, StaticIps |-> ip, Dhcp |-> dh, Arp |-> ar,
      Subinterface |-> su] :
        en \in YN, ad \in RawPtrs("address", RawBody.ipv6), sc \in L3Scalars,
        ip \in {Nil} \cup {Ptr(l) : l \in IpLists}, dh \in DhcpPtrs,
        ar \in RawPtrs("arp", RawBody.arp),
        su \in RawPtrs("units", RawBody.l3subinterface)}

\* l3Mode_v2 values
L3Modes_v2 ==
    {[Ipv6 |-> [Enabled |-> en, Address |-> ad],
      ManagementProfile |-> sc.mp, Mtu |-> sc.mtu, NetflowProfile |-> sc.nf,
      AdjustTcpMss |-> sc.adj, Ipv4MssAdjust |-> sc.v4, Ipv6MssAdjust |-> sc.v6,
      StaticIps |-> ip, Dhcp |-> dh, Arp |-> ar, Subinterface |-> su] :
        en \in YN, ad \in RawPtrs("address", RawBody.ipv6), sc \in L3Scalars,
        ip \in {Nil} \cup {Ptr(l) : l \in IpLists}, dh \in DhcpPtrs,
        ar \in RawPtrs("arp", RawBody.arp),
        su \in RawPtrs("units", RawBody.l3subinterface)}

L3ModesOf(v) == IF v = "v1" THEN L3Modes_v1 ELSE L3Modes_v2

\* otherMode values, with the given units body
OtherModes(body) ==
    {[LldpEnabled |-> en, LldpProfile |-> pr.lp, NetflowProfile |-> pr.nf,
      Subinterface |-> su] :
        en \in YN, pr \in {[lp |-> "", nf |-> ""], [lp |-> "lldp2", nf |-> "nf2"]},
        su \in RawPtrs("units", body)}

\* Wire objects with exactly one mode sub-object.
WellFormedWires(v) ==
    LET base(l) == [ZeroWire EXCEPT !.Name = l.Name, !.LinkSpeed = l.LinkSpeed,
                                    !.LinkDuplex = l.LinkDuplex,
                                    !.LinkState = l.LinkState, !.Comment = l.Comment]
    IN  UNION {
          {[base(l) EXCEPT !.ModeL3 = Ptr(m)] : m \in L3ModesOf(v)}
          \cup {[base(l) EXCEPT !.ModeL2 = Ptr(m)] : m \in OtherModes(RawBody.l2subinterface)}
          \cup {[base(l) EXCEPT !.ModeVwire = Ptr(m)] : m \in OtherModes(VwireBody)}
          \cup {[base(l) EXCEPT !.TapMode = Ptr(emptyMode)],
                [base(l) EXCEPT !.HaMode = Ptr(emptyMode)],
                [base(l) EXCEPT !.DecryptMirrorMode = Ptr(emptyMode)],
                [base(l) EXCEPT !.AggregateGroupMode = Ptr(emptyMode)]}
          : l \in Links}

\* A layer3 sub-object with every field set and no opaque sub-tree.
PlainL3(v) ==
    LET m == [Ipv6 |-> [Enabled |-> "yes", Address |-> Nil],
              ManagementProfile |-> "mgmt", Mtu |-> 1500, NetflowProfile |-> "nf3",
              AdjustTcpMss |-> "yes", Ipv4MssAdjust |-> 40, Ipv6MssAdjust |-> 60,
              StaticIps |-> Ptr(SubSeq(AllIps, 1, 1)),
              Dhcp |-> Ptr([Enable |-> "yes", CreateDefaultRoute |-> "yes",
                            Metric |-> 1]),
              Arp |-> Nil, Subinterface |-> Nil]
    IN  IF v = "v1"
        THEN [f \in DOMAIN m \ {"Ipv4MssAdjust", "Ipv6MssAdjust"} |-> m[f]]
        ELSE m

\* A layer2 / virtual-wire sub-object with every field set and a units block.
FullOther(body) ==
    [LldpEnabled |-> "yes", LldpProfile |-> "lldp2", NetflowProfile |-> "nf2",
     Subinterface |-> Ptr(RawXml(Wrap("units", body)))]

\* Wire objects with any number of mode sub-objects, none and several included.
AnyModeWires(v) ==
    {[Name |-> l.Name, ModeL3 |-> m3, ModeL2 |-> m2, ModeVwire |-> mv,
      TapMode |-> t, HaMode |-> h, DecryptMirrorMode |-> d,
      AggregateGroupMode |-> g, LinkSpeed |-> l.LinkSpeed,
      LinkDuplex |-> l.LinkDuplex, LinkState |-> l.LinkState,
      Comment |-> l.Comment] :
        l \in Links, m3 \in {Nil, Ptr(PlainL3(v))},
        m2 \in {Nil, Ptr(FullOther(RawBody.l2subinterface)),
                Ptr([FullOther(RawBody.l2subinterface) EXCEPT !.Subinterface = Nil])},
        mv \in {Nil, Ptr(FullOther(VwireBody))},
        t \in {Nil, Ptr(emptyMode)}, h \in {Nil, Ptr(emptyMode)},
        d \in {Nil, Ptr(emptyMode)}, g \in {Nil, Ptr(emptyMode)}}

WireObjs(v) == WellFormedWires(v) \cup AnyModeWires(v)

\* The key sets a record's raw map can have: Normalize fills the keys of one mode.
RawKeySets == SUBSET L3Keys \cup {L2Keys}

\* The scalar settings of a record, as three representative combinations.
EntryScalars ==
    {[v6 |-> FALSE, mp |-> "", mtu |-> 0, adj |-> FALSE, nf |-> "",
      lldp |-> FALSE, lp |-> "", m4 |-> 0, m6 |-> 0],
     [v6 |-> TRUE, mp |-> "mgmt", mtu |-> 1500, adj |-> TRUE, nf |-> "nf",
      lldp |-> TRUE, lp |-> "lldp", m4 |-> 40, m6 |-> 60],
     [v6 |-> TRUE, mp |-> "mgmt", mtu |-> 0, adj |-> FALSE, nf |-> "nf",
      lldp |-> FALSE, lp |-> "lldp", m4 |-> 40, m6 |-> 0]}

\* Records a caller can pass: any Mode string, fields of every mode set at once.
Entries ==
    {[Name |-> l.Name, Mode |-> md, StaticIps |-> ip, EnableDhcp |-> ed,
      CreateDhcpDefaultRoute |-> cd, DhcpDefaultRouteMetric |-> dm,
      Ipv6Enabled |-> sc.v6, ManagementProfile |-> sc.mp, Mtu |-> sc.mtu,
      AdjustTcpMss |-> sc.adj, NetflowProfile |-> sc.nf, LldpEnabled |-> sc.lldp,
      LldpProfile |-> sc.lp, LinkSpeed |-> l.LinkSpeed, LinkDuplex |-> l.LinkDuplex,
      LinkState |-> l.LinkState, AggregateGroup |-> "", Comment |-> l.Comment,
      Ipv4MssAdjust |-> sc.m4, Ipv6MssAdjust |-> sc.m6,
      rawNil |-> (ks = {}), raw |-> [k \in ks |-> RawBody[k]]] :
        l \in Links, md \in ModeSet \cup {"", "loopback"},
        ip \in {<<>>} \cup IpLists, ed \in BOOLEAN, cd \in BOOLEAN,
        dm \in 0..MaxMetric, sc \in EntryScalars, ks \in RawKeySets}

(***************************************************************************)
(* SpecXform: Normalize and specify applied to the inputs.                 *)
(***************************************************************************)
Variants == {"v1", "v2"}

NormalizeOf(v, o) == IF v = "v1" THEN Normalize_v1(o) ELSE Normalize_v2(o)

specifyOf(v, e) == IF v = "v1" THEN specify_v1(e) ELSE specify_v2(e)

\* The manager at rest, before any call.
MIdle ==
    /\ op = "none"
    /\ args = [vsys |-> "", name |-> "", entries |-> <<>>, ids |-> <<>>]
    /\ variant = Nil
    /\ calls = <<>>
    /\ ret = [err |-> "", entry |-> Nil, names |-> <<>>, panic |-> FALSE]

XInit ==
    /\ xvariant \in Variants
    /\ xout = Nil
    /\ xpanic = FALSE
    /\ xstage = "start"
    /\ \E fromWire \in BOOLEAN :
          IF fromWire
          THEN xwire \in {Ptr(w) : w \in WireObjs(xvariant)} /\ xentry = Nil
          ELSE xwire = Nil /\ xentry \in {Ptr(e) : e \in Entries}
    /\ version = [Major |-> 7, Minor |-> 1, Patch |-> 0]
    /\ MIdle

\* obj.Normalize() on the decoded wire object
XNormalize ==
    /\ xstage = "start"
    /\ xwire # Nil
    /\ LET st == NormalizeOf(xvariant, xwire[1])
       IN  IF st.panic
           THEN /\ xpanic' = TRUE
                /\ xstage' = "panic"
                /\ xentry' = xentry
           ELSE /\ xpanic' = xpanic
                /\ xstage' = "normalized"
                /\ xentry' = Ptr(st.ans)
    /\ UNCHANGED <<xvariant, xwire, xout>>
    /\ UNCHANGED mvars

\* fn(e) on a caller's record, or on the record Normalize returned
XSpecify ==
    /\ xstage = IF xwire = Nil THEN "start" ELSE "normalized"
    /\ xout' = Ptr(specifyOf(xvariant, xentry[1]))
    /\ xstage' = "specified"
    /\ UNCHANGED <<xvariant, xwire, xentry, xpanic>>
    /\ UNCHANGED mvars

XNext == XNormalize \/ XSpecify

SpecXform == XInit /\ [][XNext]_vars

(***************************************************************************)
(* Vocabulary of the properties of Normalize and specify.                  *)
(***************************************************************************)
\* The sub-object pointer of a wire object for a mode.
ModePtr(o, mode) ==
    CASE mode = "layer3" -> o.ModeL3
      [] mode = "layer2" -> o.ModeL2
      [] mode = "virtual-wire" -> o.ModeVwire
      [] mode = "tap" -> o.TapMode
      [] mode = "ha" -> o.HaMode
      [] mode = "decrypt-mirror" -> o.DecryptMirrorMode
      [] mode = "aggregate-group" -> o.AggregateGroupMode

PresentModes(o) == {m \in ModeSet : ModePtr(o, m) # Nil}

WellFormed(o) == Cardinality(PresentModes(o)) = 1

\* The first present mode in the order of Modes, "" when none is present.
FirstPresent(o) ==
    IF PresentModes(o) = {} THEN ""
    ELSE Modes[CHOOSE i \in 1..Len(Modes) :
                   /\ Modes[i] \in PresentModes(o)
                   /\ \A j \in 1..(i - 1) : Modes[j] \notin PresentModes(o)]

\* The opaque sub-trees a wire object carries under mode md, as key |-> raw text.
WireFragments(o, md) ==
    LET has(p) == IF p = Nil THEN {} ELSE {p[1].Text}
        frag(k) ==
            CASE md = "layer3" /\ k = "arp" -> has(o.ModeL3[1].Arp)
              [] md = "layer3" /\ k = "l3subinterface" -> has(o.ModeL3[1].Subinterface)
              [] md = "layer3" /\ k = "ipv6" -> has(o.ModeL3[1].Ipv6.Address)
              [] md = "layer2" /\ k = "l2subinterface" -> has(o.ModeL2[1].Subinterface)
              [] md = "virtual-wire" /\ k = "l2subinterface" -> has(o.ModeVwire[1].Subinterface)
              [] OTHER -> {}
    IN  [k \in L3Keys \cup L2Keys |-> frag(k)]

\* The fragment keys that belong to a mode of the record.
KeysOfMode(md) ==
    CASE md = "layer3" -> L3Keys
      [] md = "layer2" -> L2Keys
      [] OTHER -> {}

\* A sub-tree as it is marshalled: the text inside the element's own tag.
Rewrapped(tag, p) == IF p = Nil THEN Nil ELSE Ptr(RawXml(Wrap(tag, p[1].Text)))

\* A wire object as it is marshalled, every sub-tree inside its wrapper tag.
Marshalled(o) ==
    LET l3(m) == [m EXCEPT !.Arp = Rewrapped("arp", @),
                           !.Subinterface = Rewrapped("units", @),
                           !.Ipv6.Address = Rewrapped("address", @)]
        ot(m) == [m EXCEPT !.Subinterface = Rewrapped("units", @)]
    IN  [o EXCEPT !.ModeL3 = IF @ = Nil THEN Nil ELSE Ptr(l3(@[1])),
                  !.ModeL2 = IF @ = Nil THEN Nil ELSE Ptr(ot(@[1])),
                  !.ModeVwire = IF @ = Nil THEN Nil ELSE Ptr(ot(@[1]))]

\* Every raw text a wire object carries, in any sub-object.
TextsOf(o) ==
    LET has(p) == IF p = Nil THEN {} ELSE {p[1].Text}
    IN  (IF o.ModeL3 = Nil THEN {}
         ELSE has(o.ModeL3[1].Arp) \cup has(o.ModeL3[1].Subinterface)
              \cup has(o.ModeL3[1].Ipv6.Address))
        \cup (IF o.ModeL2 = Nil THEN {} ELSE has(o.ModeL2[1].Subinterface))
        \cup (IF o.ModeVwire = Nil THEN {} ELSE has(o.ModeVwire[1].Subinterface))

\* Every profile name a wire object carries, in any sub-object.
ProfilesOf(o) ==
    (IF o.ModeL3 = Nil THEN {}
     ELSE {o.ModeL3[1].ManagementProfile, o.ModeL3[1].NetflowProfile})
    \cup (IF o.ModeL2 = Nil THEN {}
          ELSE {o.ModeL2[1].LldpProfile, o.ModeL2[1].NetflowProfile})
    \cup (IF o.ModeVwire = Nil THEN {}
          ELSE {o.ModeVwire[1].LldpProfile, o.ModeVwire[1].NetflowProfile})

SameLink(a, b) ==
    /\ a.Name = b.Name
    /\ a.LinkSpeed = b.LinkSpeed
    /\ a.LinkDuplex = b.LinkDuplex
    /\ a.LinkState = b.LinkState
    /\ a.Comment = b.Comment

\* Normalize has acted on the wire object.
Normalized == xwire # Nil /\ xstage \in {"normalized", "panic", "specified"}

\* Normalize has returned a record for the wire object.
Returned == xwire # Nil /\ xstage \in {"normalized", "specified"}

(***************************************************************************)
(* Claims about Normalize and specify, under SpecXform.                    *)
(***************************************************************************)
\* C1: for each variant and every well-formed wire object (exactly one mode
\* sub-object), specify(normalize(wire)) is produced and marshals to the
\* original: link fields, the mode sub-object and its fields, the DHCP
\* sub-object's presence, and every opaque sub-tree with identical text.
RoundTrip ==
    (Normalized /\ WellFormed(xwire[1]) /\ xstage \in {"panic", "specified"})
        => /\ xstage = "specified"
           /\ Marshalled(xout[1]) = xwire[1]

\* C7: for both variants, Normalize of a wire object completes and returns a
\* record whose raw map has, for each opaque sub-tree present under the
\* selected mode, that sub-tree's cleaned text under its key, and has a key
\* only if its sub-tree was present.
FragmentCapture ==
    Normalized =>
        /\ ~xpanic
        /\ LET fr == WireFragments(xwire[1], FirstPresent(xwire[1]))
               e == xentry[1]
           IN  \A k \in L3Keys \cup L2Keys :
                   /\ RawPresent(e, k) <=> fr[k] # {}
                   /\ RawPresent(e, k) => CleanRawXml(CHOOSE t \in fr[k] : TRUE) = e.raw[k]

\* C9: for both variants and every wire object (several modes present, or none,
\* included), the record Normalize returns has as Mode the first present mode
\* in the order of Modes ("" when none), and its fields and fragment keys of
\* every other mode are zero / absent.
ModeExclusivity ==
    Returned =>
        LET e == xentry[1]
        IN  /\ e.Mode = FirstPresent(xwire[1])
            /\ DOMAIN e.raw \subseteq KeysOfMode(e.Mode)
            /\ e.Mode # "layer3" =>
                   /\ e.StaticIps = <<>> /\ ~e.EnableDhcp
                   /\ ~e.CreateDhcpDefaultRoute /\ e.DhcpDefaultRouteMetric = 0
                   /\ ~e.Ipv6Enabled /\ e.ManagementProfile = "" /\ e.Mtu = 0
                   /\ ~e.AdjustTcpMss /\ e.Ipv4MssAdjust = 0 /\ e.Ipv6MssAdjust = 0
            /\ e.Mode \notin {"layer2", "virtual-wire"} =>
                   ~e.LldpEnabled /\ e.LldpProfile = ""
            /\ e.Mode \notin {"layer3", "layer2", "virtual-wire"} =>
                   e.NetflowProfile = ""
            /\ e.AggregateGroup = ""

\* Reached: container_v1.Normalize returned a layer3 record for a wire object
\* that also carries layer2, virtual-wire and tap sub-objects.
ModeExclusivityWitness ==
    /\ Returned /\ xvariant = "v1" /\ xstage = "normalized"
    /\ {"layer3", "layer2", "virtual-wire", "tap"} \subseteq PresentModes(xwire[1])
    /\ xentry[1].Mode = "layer3"
    /\ xentry[1].LldpProfile = ""

\* Reached: container_v2.Normalize returned a record with no Mode for a wire
\* object with no mode sub-object.
ModeEmptyReached ==
    /\ Returned /\ xvariant = "v2"
    /\ PresentModes(xwire[1]) = {}
    /\ xentry[1].Mode = ""

\* C8: for both specify functions and every record with Mode = layer3, the
\* layer3 sub-object has a DHCP sub-object iff EnableDhcp or
\* CreateDhcpDefaultRoute or DhcpDefaultRouteMetric # 0; when present it holds
\* the yes/no encodings of the two booleans and the metric.
DhcpOmission ==
    (xstage = "specified" /\ xentry[1].Mode = "layer3") =>
        LET e == xentry[1]
            d == xout[1].ModeL3[1].Dhcp
        IN  /\ d # Nil <=> (e.EnableDhcp \/ e.CreateDhcpDefaultRoute
                            \/ e.DhcpDefaultRouteMetric # 0)
            /\ d # Nil =>
                   /\ d[1].Enable = (IF e.EnableDhcp THEN "yes" ELSE "no")
                   /\ d[1].CreateDefaultRoute =
                          (IF e.CreateDhcpDefaultRoute THEN "yes" ELSE "no")
                   /\ d[1].Metric = e.DhcpDefaultRouteMetric

\* Reached: specify_v1 built a DHCP sub-object for a layer3 record whose only
\* DHCP setting is a non-zero metric.
DhcpOmissionWitness ==
    /\ xstage = "specified" /\ xvariant = "v1" /\ xwire = Nil
    /\ xentry[1].Mode = "layer3"
    /\ ~xentry[1].EnableDhcp /\ ~xentry[1].CreateDhcpDefaultRoute
    /\ xentry[1].DhcpDefaultRouteMetric # 0
    /\ xout[1].ModeL3[1].Dhcp # Nil

\* C10: for both specify functions and every record, the wire object has the
\* sub-object named by Mode when Mode is one of the seven modes and none
\* otherwise; fragments and profiles of other modes never appear in it; the
\* link fields are copied in every case.
SpecifyDispatch ==
    xstage = "specified" =>
        LET e == xentry[1]
            o == xout[1]
        IN  /\ PresentModes(o) = (IF e.Mode \in ModeSet THEN {e.Mode} ELSE {})
            /\ SameLink(o, e)
            /\ TextsOf(o) = {e.raw[k] : k \in KeysOfMode(e.Mode) \cap DOMAIN e.raw}
            /\ e.Mode = "layer3" =>
                   ProfilesOf(o) = {e.ManagementProfile, e.NetflowProfile}
            /\ e.Mode \in {"layer2", "virtual-wire"} =>
                   ProfilesOf(o) = {e.LldpProfile, e.NetflowProfile}
            /\ e.Mode \notin {"layer3", "layer2", "virtual-wire"} =>
                   ProfilesOf(o) = {}

\* Reached: specify_v2 of a virtual-wire record that carries an l2subinterface
\* fragment and a management profile, neither of which is in the output.
SpecifyDispatchWitness ==
    /\ xstage = "specified" /\ xvariant = "v2" /\ xwire = Nil
    /\ xentry[1].Mode = "virtual-wire"
    /\ RawPresent(xentry[1], "l2subinterface")
    /\ xentry[1].ManagementProfile # ""
    /\ xout[1].ModeVwire # Nil
    /\ xout[1].ModeVwire[1].Subinterface = Nil

(***************************************************************************)
(* The Eth manager (eth.go 42-213).  One action per exported method; the   *)
(* transport's replies (errors, decoded objects) are inputs of the action. *)
(* An error is a string, "" for nil.                                       *)
(***************************************************************************)
\* The versions a device may report.
Versions ==
    {[Major |-> 6, Minor |-> 2, Patch |-> 3], [Major |-> 7, Minor |-> 0, Patch |-> 9],
     [Major |-> 7, Minor |-> 1, Patch |-> 0], [Major |-> 8, Minor |-> 0, Patch |-> 0]}

\* version.Number.Gte: v is the same release as o or a later one.
Gte(v, o) ==
    \/ v.Major > o.Major
    \/ v.Major = o.Major /\ v.Minor > o.Minor
    \/ v.Major = o.Major /\ v.Minor = o.Minor /\ v.Patch >= o.Patch

\* versioning with only the major number compared.
versioning_major(v) == IF v.Major >= 7 THEN "v2" ELSE "v1"

\* func (c *Eth) versioning(): the variant whose normalizer and specifier are
\* returned, for the version v that c.con.Versioning() reports.
versioning(v) ==
    IF Gte(v, [Major |-> 7, Minor |-> 1, Patch |-> 0]) THEN "v2" ELSE "v1"

\* A path is a sequence of segments, a segment a sequence of strings.
\* util.AsEntryXpath: the selector of the named entries, "entry" alone for none.
AsEntryXpath(vals) == <<"entry">> \o vals

\* func (c *Eth) xpath(vals []string) []string
xpath(vals) ==
    <<<<"config">>, <<"devices">>, AsEntryXpath(<<"localhost.localdomain">>),
      <<"network">>, <<"interface">>, <<"ethernet">>, AsEntryXpath(vals)>>

\* One call of the transport, with the error it returned.
Call(fn, path, vsys, names, data, err) ==
    [fn |-> fn, path |-> path, vsys |-> vsys, names |-> names, data |-> data,
     err |-> err]

\* What a method returns.
Ret(err, entry, names, panic) ==
    [err |-> err, entry |-> entry, names |-> names, panic |-> panic]

NoArgs == [vsys |-> "", name |-> "", entries |-> <<>>, ids |-> <<>>]

\* The variant a call selected, for the version v it read.
Selected(v) == Ptr(versioning(v))

(***************************************************************************)
(* Inputs of Spec.                                                         *)
(***************************************************************************)
Names == {l.Name : l \in Links}

Vsyses == {"", "vsys1"}

\* The objects a device answers Get / Show of a name with, decoded as variant v:
\* a layer3 interface, the same with an arp block, a tap interface.
Answers(v, name) ==
    LET l == CHOOSE x \in Links : x.Name = name
        base == [ZeroWire EXCEPT !.Name = l.Name, !.LinkSpeed = l.LinkSpeed,
                                 !.LinkDuplex = l.LinkDuplex,
                                 !.LinkState = l.LinkState, !.Comment = l.Comment]
    IN  {[base EXCEPT !.ModeL3 = Ptr(PlainL3(v))],
         [base EXCEPT !.ModeL3 =
              Ptr([PlainL3(v) EXCEPT !.Arp = Ptr(RawXml(Wrap("arp", RawBody.arp)))])],
         [base EXCEPT !.TapMode = Ptr(emptyMode)]}

\* The records callers write: a static layer3 interface under either name, with
\* both MSS adjustments set, and a tap interface.
WriteEntries ==
    LET l3(l) == [ZeroEntry EXCEPT !.Name = l.Name, !.Mode = "layer3",
                                   !.StaticIps = SubSeq(AllIps, 1, 1),
                                   !.Ipv6Enabled = TRUE, !.ManagementProfile = "mgmt",
                                   !.Mtu = 1500, !.AdjustTcpMss = TRUE,
                                   !.NetflowProfile = "nf", !.LinkSpeed = l.LinkSpeed,
                                   !.LinkDuplex = l.LinkDuplex,
                                   !.LinkState = l.LinkState, !.Comment = l.Comment,
                                   !.Ipv4MssAdjust = 40, !.Ipv6MssAdjust = 60]
    IN  {l3(l) : l \in Links}
        \cup {[ZeroEntry EXCEPT !.Name = "ethernet1/1", !.Mode = "tap",
                                !.LinkSpeed = "auto"]}

\* Sequences over S of length at most n.
SeqsUpTo(S, n) == UNION {[1..k -> S] : k \in 0..n}

\* An argument of Delete: a string, an Entry, or a value of another type.
StringId(s) == [kind |-> "string", s |-> s, e |-> Nil, x |-> 0]
EntryId(e) == [kind |-> "Entry", s |-> "", e |-> Ptr(e), x |-> 0]
OtherId(x) == [kind |-> "int", s |-> "", e |-> Nil, x |-> x]

Ids ==
    {StringId(n) : n \in Names} \cup {OtherId(7)}
    \cup {EntryId(e) : e \in WriteEntries}

\* The errors of a method's two dependent transport calls: at most one fails,
\* since the second is made only after the first succeeded.
Outcomes(first, second) == {<<"", "">>, <<first, "">>, <<"", second>>}

(***************************************************************************)
(* The methods.                                                            *)
(***************************************************************************)
\* func (c *Eth) details(fn, name): read, then Normalize (192-201).  reply is
\* the transport's answer: an error, or the object decoded into obj.
details(fn, name, v, reply) ==
    LET path == xpath(<<name>>)
        var == versioning(v)
        c == Call(fn, path, "", <<>>, reply.obj, reply.err)
    IN  IF reply.err # ""
        THEN [calls |-> <<c>>, ret |-> Ret(reply.err, Nil, <<>>, FALSE)]
        ELSE LET st == NormalizeOf(var, reply.obj[1])
             IN  [calls |-> <<c>>,
                  ret |-> IF st.panic THEN Ret("", Nil, <<>>, TRUE)
                          ELSE Ret("", Ptr(st.ans), <<>>, FALSE)]

Replies(v, name) ==
    {[err |-> "not-found", obj |-> Nil]}
    \cup {[err |-> "", obj |-> Ptr(w)] : w \in Answers(versioning(v), name)}

\* func (c *Eth) Get(name string) (Entry, error)
Get ==
    \E name \in Names : \E reply \in Replies(version, name) :
        LET r == details("Get", name, version, reply)
        IN  /\ op = "none"
            /\ op' = "Get"
            /\ args' = [NoArgs EXCEPT !.name = name]
            /\ variant' = Selected(version)
            /\ calls' = r.calls
            /\ ret' = r.ret
            /\ UNCHANGED version
            /\ UNCHANGED xvars

\* func (c *Eth) Show(name string) (Entry, error)
Show ==
    \E name \in Names : \E reply \in Replies(version, name) :
        LET r == details("Show", name, version, reply)
        IN  /\ op = "none"
            /\ op' = "Show"
            /\ args' = [NoArgs EXCEPT !.name = name]
            /\ variant' = Selected(version)
            /\ calls' = r.calls
            /\ ret' = r.ret
            /\ UNCHANGED version
            /\ UNCHANGED xvars

\* The path ShowList and GetList enumerate: path[:len(path) - 1] of xpath(nil).
ListPath == SubSeq(xpath(<<>>), 1, Len(xpath(<<>>)) - 1)

ListReplies(fn) ==
    {[err |-> "", names |-> <<"ethernet1/1", "ethernet1/2">>],
     [err |-> "", names |-> <<>>],
     [err |-> fn, names |-> <<>>]}

\* func (c *Eth) ShowList() ([]string, error)
ShowList ==
    \E reply \in ListReplies("show-failed") :
        /\ op = "none"
        /\ op' = "ShowList"
        /\ args' = NoArgs
        /\ variant' = Nil
        /\ calls' = <<Call("EntryListUsing(Show)", ListPath, "", <<>>, <<>>, reply.err)>>
        /\ ret' = Ret(reply.err, Nil, reply.names, FALSE)
        /\ UNCHANGED version
        /\ UNCHANGED xvars

\* func (c *Eth) GetList() ([]string, error)
GetList ==
    \E reply \in ListReplies("get-failed") :
        /\ op = "none"
        /\ op' = "GetList"
        /\ args' = NoArgs
        /\ variant' = Nil
        /\ calls' = <<Call("EntryListUsing(Get)", ListPath, "", <<>>, <<>>, reply.err)>>
        /\ ret' = Ret(reply.err, Nil, reply.names, FALSE)
        /\ UNCHANGED version
        /\ UNCHANGED xvars

\* WriteThenImport importing whatever the write returned.
WriteThenImport_always(write, vsys, names, ierr) ==
    [calls |-> <<write, Call("ImportInterfaces", <<>>, vsys, names, <<>>, ierr)>>,
     err |-> ierr]

\* The tail of Set and Edit (109-115, 133-139): the write was called and
\* returned write.err; the import is called only if that is nil.
WriteThenImport(write, vsys, names, ierr) ==
    IF write.err # ""
    THEN [calls |-> <<write>>, err |-> write.err]
    ELSE [calls |-> <<write, Call("ImportInterfaces", <<>>, vsys, names, <<>>, ierr)>>,
          err |-> ierr]

\* names[i] = e[i].Name
SetNames(e) == [i \in 1..Len(e) |-> e[i].Name]

\* SetPath keeping the entry selector for one record and dropping it for more.
SetPath_selector(e) ==
    LET path == xpath(SetNames(e))
    IN  IF Len(e) = 1 THEN path ELSE SubSeq(path, 1, Len(path) - 1)

\* The path of Set (101-106): xpath(names) less its last segment for one record,
\* less its last two for more.
SetPath(e) ==
    LET path == xpath(SetNames(e))
    IN  IF Len(e) = 1
        THEN SubSeq(path, 1, Len(path) - 1)
        ELSE SubSeq(path, 1, Len(path) - 2)

\* func (c *Eth) Set(vsys string, e ...Entry) error
Set ==
    \E vsys \in Vsyses : \E e \in SeqsUpTo(WriteEntries, MaxBatch) :
      \E errs \in Outcomes("set-failed", "import-failed") :
        /\ op = "none"
        /\ op' = "Set"
        /\ args' = [NoArgs EXCEPT !.vsys = vsys, !.entries = e]
        /\ IF Len(e) = 0
           THEN /\ variant' = Nil
                /\ calls' = <<>>
                /\ ret' = Ret("", Nil, <<>>, FALSE)
           ELSE LET var == versioning(version)
                    d == [i \in 1..Len(e) |-> specifyOf(var, e[i])]
                    write == Call("Set", SetPath(e), "", <<>>, d, errs[1])
                    r == WriteThenImport(write, vsys, SetNames(e), errs[2])
                IN  /\ variant' = Selected(version)
                    /\ calls' = r.calls
                    /\ ret' = Ret(r.err, Nil, <<>>, FALSE)
        /\ UNCHANGED version
        /\ UNCHANGED xvars

\* func (c *Eth) Edit(vsys string, e Entry) error
Edit ==
    \E vsys \in Vsyses : \E e \in WriteEntries :
      \E errs \in Outcomes("edit-failed", "import-failed") :
        LET var == versioning(version)
            path == xpath(<<e.Name>>)
            write == Call("Edit", path, "", <<>>, <<specifyOf(var, e)>>, errs[1])
            r == WriteThenImport(write, vsys, <<e.Name>>, errs[2])
        IN  /\ op = "none"
            /\ op' = "Edit"
            /\ args' = [NoArgs EXCEPT !.vsys = vsys, !.entries = <<e>>]
            /\ variant' = Selected(version)
            /\ calls' = r.calls
            /\ ret' = Ret(r.err, Nil, <<>>, FALSE)
            /\ UNCHANGED version
            /\ UNCHANGED xvars

\* DeleteNames leaving the name of an argument of another type empty.
DeleteNames_lenient(e) ==
    [ok |-> TRUE,
     names |-> [i \in 1..Len(e) |->
                   CASE e[i].kind = "string" -> e[i].s
                     [] e[i].kind = "Entry" -> e[i].e[1].Name
                     [] OTHER -> ""]]

\* The type switch of Delete (155-165): the names, or the failure at the first
\* argument that is neither a string nor an Entry.
DeleteNames(e) ==
    IF \E i \in 1..Len(e) : e[i].kind \notin {"string", "Entry"}
    THEN [ok |-> FALSE, names |-> <<>>]
    ELSE [ok |-> TRUE,
          names |-> [i \in 1..Len(e) |->
                        IF e[i].kind = "string" THEN e[i].s ELSE e[i].e[1].Name]]

\* UnimportThenDelete deleting whatever the unimport returned.
UnimportThenDelete_always(vsys, names, uerr, derr) ==
    [calls |-> <<Call("UnimportInterfaces", <<>>, vsys, names, <<>>, uerr),
                 Call("Delete", xpath(names), "", <<>>, <<>>, derr)>>,
     err |-> derr]

\* The tail of Delete (168-177): unimport, and the delete only if it succeeded.
UnimportThenDelete(vsys, names, uerr, derr) ==
    LET un == Call("UnimportInterfaces", <<>>, vsys, names, <<>>, uerr)
    IN  IF uerr # ""
        THEN [calls |-> <<un>>, err |-> uerr]
        ELSE [calls |-> <<un, Call("Delete", xpath(names), "", <<>>, <<>>, derr)>>,
              err |-> derr]

\* func (c *Eth) Delete(vsys string, e ...interface{}) error
Delete ==
    \E vsys \in Vsyses : \E e \in SeqsUpTo(Ids, MaxBatch) :
      \E errs \in Outcomes("unimport-failed", "delete-failed") :
        /\ op = "none"
        /\ op' = "Delete"
        /\ args' = [NoArgs EXCEPT !.vsys = vsys, !.ids = e]
        /\ variant' = Nil
        /\ IF Len(e) = 0
           THEN /\ calls' = <<>>
                /\ ret' = Ret("", Nil, <<>>, FALSE)
           ELSE LET n == DeleteNames(e)
                    r == UnimportThenDelete(vsys, n.names, errs[1], errs[2])
                IN  IF ~n.ok
                    THEN /\ calls' = <<>>
                         /\ ret' = Ret("Unknown type sent to delete", Nil, <<>>, FALSE)
                    ELSE /\ calls' = r.calls
                         /\ ret' = Ret(r.err, Nil, <<>>, FALSE)
        /\ UNCHANGED version
        /\ UNCHANGED xvars

\* The method returns to its caller; calls do not overlap (the manager is
\* synchronous), so the next one starts from the manager at rest.
Return ==
    /\ op # "none"
    /\ op' = "none"
    /\ args' = NoArgs
    /\ variant' = Nil
    /\ calls' = <<>>
    /\ ret' = Ret("", Nil, <<>>, FALSE)
    /\ UNCHANGED version
    /\ UNCHANGED xvars

\* Between two calls the device behind the connection reports another version.
Upgrade ==
    /\ op = "none"
    /\ version' \in Versions \ {version}
    /\ UNCHANGED <<op, args, variant, calls, ret>>
    /\ UNCHANGED xvars

Init ==
    /\ version \in Versions
    /\ MIdle
    /\ xvariant = "v1"
    /\ xwire = Nil
    /\ xentry = Nil
    /\ xout = Nil
    /\ xpanic = FALSE
    /\ xstage = "start"

Next ==
    \/ Get
    \/ Show
    \/ ShowList
    \/ GetList
    \/ Set
    \/ Edit
    \/ Delete
    \/ Return
    \/ Upgrade

Spec == Init /\ [][Next]_vars

(***************************************************************************)
(* Vocabulary of the properties of the manager.                            *)
(***************************************************************************)
\* The positions in calls of the calls of transport function fn.
CallsOf(fn) == {i \in 1..Len(calls) : calls[i].fn = fn}

\* The identifiers of the Delete call are all strings or Entry values.
AllValidIds == \A i \in 1..Len(args.ids) : args.ids[i].kind \in {"string", "Entry"}

\* The name an identifier stands for: the string itself, or the Entry's Name.
IdName(id) == IF id.kind = "string" THEN id.s ELSE id.e[1].Name

\* The version is 7.1.0 or later.
AtLeast710(v) == v.Major * 10000 + v.Minor * 100 + v.Patch >= 70100

\* The collection path, ending at the "ethernet" segment.
CollectionPath ==
    <<<<"config">>, <<"devices">>, <<"entry", "localhost.localdomain">>,
      <<"network">>, <<"interface">>, <<"ethernet">>>>

\* The path of the entries named, the collection path and their selector.
EntryPath(names) == CollectionPath \o <<<<"entry">> \o names>>

\* A non-empty Set, or an Edit, was called.
WriteCalled == op \in {"Set", "Edit"} /\ Len(args.entries) >= 1

(***************************************************************************)
(* Claims about the manager, under Spec.                                   *)
(***************************************************************************)
\* C2: in a Delete call the transport Delete is invoked at most once and only
\* after UnimportInterfaces of the same call succeeded; when every identifier
\* is valid, UnimportInterfaces is invoked first, its error ends the call and
\* is the call's result with no Delete invoked, and its success is followed by
\* one Delete on the path covering all the names.
DeleteOrdering ==
    op = "Delete" =>
        /\ Cardinality(CallsOf("Delete")) <= 1
        /\ \A i \in CallsOf("Delete") :
               \E j \in 1..(i - 1) :
                   calls[j].fn = "UnimportInterfaces" /\ calls[j].err = ""
        /\ \A j \in CallsOf("UnimportInterfaces") :
               calls[j].err # "" =>
                   CallsOf("Delete") = {} /\ ret.err = calls[j].err
        /\ (Len(args.ids) >= 1 /\ AllValidIds) =>
               /\ Len(calls) >= 1
               /\ calls[1].fn = "UnimportInterfaces"
               /\ calls[1].vsys = args.vsys
               /\ calls[1].err = "" =>
                      /\ Len(calls) = 2
                      /\ calls[2].fn = "Delete"
                      /\ calls[2].path =
                             EntryPath([i \in 1..Len(args.ids) |-> IdName(args.ids[i])])
                      /\ ret.err = calls[2].err

\* Reached: a Delete of two identifiers whose unimport failed; the error is
\* returned and the transport Delete was not invoked.
DeleteOrderingWitness ==
    /\ op = "Delete" /\ Len(args.ids) = 2 /\ AllValidIds
    /\ Len(calls) = 1
    /\ calls[1].fn = "UnimportInterfaces" /\ calls[1].err = "unimport-failed"
    /\ ret.err = "unimport-failed"

\* C3: in a non-empty Set and in Edit, the write is the first transport call;
\* ImportInterfaces is invoked only after the write returned success; a failed
\* write ends the call with the write's error and no import; after a successful
\* write the import's error is the result and no further call undoes the write.
WriteThenImportOrdering ==
    WriteCalled =>
        /\ Len(calls) >= 1
        /\ calls[1].fn = op
        /\ \A i \in CallsOf("ImportInterfaces") :
               \E j \in 1..(i - 1) : calls[j].fn = op /\ calls[j].err = ""
        /\ calls[1].err # "" =>
               /\ CallsOf("ImportInterfaces") = {}
               /\ ret.err = calls[1].err
        /\ calls[1].err = "" =>
               /\ Len(calls) = 2
               /\ calls[2].fn = "ImportInterfaces"
               /\ calls[2].vsys = args.vsys
               /\ calls[2].names = [i \in 1..Len(args.entries) |-> args.entries[i].Name]
               /\ ret.err = calls[2].err

\* Reached: a Set of two records whose write succeeded and whose import
\* failed; the import's error is returned and nothing follows the import.
WriteThenImportWitness ==
    /\ op = "Set" /\ Len(args.entries) = 2
    /\ Len(calls) = 2
    /\ calls[1].err = ""
    /\ calls[2].fn = "ImportInterfaces" /\ calls[2].err = "import-failed"
    /\ ret.err = "import-failed"

\* C4, as claimed: Set with one record writes at the single-entry path (the
\* collection path and that name's selector, the path Edit uses); Set with two
\* or more records writes at the collection path, ending at "ethernet".
BatchPathCollapse ==
    (op = "Set" /\ Len(args.entries) >= 1) =>
        calls[1].path = IF Len(args.entries) = 1
                        THEN EntryPath(<<args.entries[1].Name>>)
                        ELSE CollectionPath

\* C4, amended: Set with one record writes at the collection path, ending at
\* "ethernet" (the selector is dropped); Set with two or more records writes at
\* its parent, ending at "interface".  The path depends on the count alone.
BatchPathParent ==
    (op = "Set" /\ Len(args.entries) >= 1) =>
        /\ calls[1].fn = "Set"
        /\ calls[1].path = IF Len(args.entries) = 1
                           THEN CollectionPath
                           ELSE SubSeq(CollectionPath, 1, Len(CollectionPath) - 1)

\* Reached: a Set of two records written at the path ending at "interface".
BatchPathWitness ==
    /\ op = "Set" /\ Len(args.entries) = 2
    /\ calls[1].fn = "Set"
    /\ calls[1].path[Len(calls[1].path)] = <<"interface">>
    /\ Len(calls[1].data) = 2

\* Reached: a Set of one record written at the path ending at "ethernet".
BatchPathOneReached ==
    /\ op = "Set" /\ Len(args.entries) = 1
    /\ calls[1].path[Len(calls[1].path)] = <<"ethernet">>

\* C5: Get, Show, Edit and a non-empty Set use variant v2 exactly when the
\* version reported at that call is 7.1.0 or later, and v1 otherwise; a layer3
\* record is written with Ipv4MssAdjust / Ipv6MssAdjust on the wire object
\* exactly under v2, with the record's values; a record read under v1 has both
\* zero.
VersionDispatch ==
    /\ (op \in {"Get", "Show"} \/ WriteCalled) =>
           variant = Ptr(IF AtLeast710(version) THEN "v2" ELSE "v1")
    /\ WriteCalled =>
           \A i \in 1..Len(args.entries) :
               LET e == args.entries[i]
                   o == calls[1].data[i]
               IN  e.Mode = "layer3" =>
                       /\ o.ModeL3 # Nil
                       /\ "Ipv4MssAdjust" \in DOMAIN o.ModeL3[1] <=> AtLeast710(version)
                       /\ "Ipv6MssAdjust" \in DOMAIN o.ModeL3[1] <=> AtLeast710(version)
                       /\ AtLeast710(version) =>
                              /\ o.ModeL3[1].Ipv4MssAdjust = e.Ipv4MssAdjust
                              /\ o.ModeL3[1].Ipv6MssAdjust = e.Ipv6MssAdjust
    /\ (op \in {"Get", "Show"} /\ ret.entry # Nil /\ ~AtLeast710(version)) =>
           ret.entry[1].Ipv4MssAdjust = 0 /\ ret.entry[1].Ipv6MssAdjust = 0

\* Reached: an Edit under version 7.0.9 of a layer3 record with both MSS
\* adjustments set, written as a v1 object that carries neither.
VersionDispatchWitness ==
    /\ op = "Edit"
    /\ version = [Major |-> 7, Minor |-> 0, Patch |-> 9]
    /\ variant = Ptr("v1")
    /\ args.entries[1].Mode = "layer3"
    /\ args.entries[1].Ipv4MssAdjust # 0
    /\ "Ipv4MssAdjust" \notin DOMAIN calls[1].data[1].ModeL3[1]

\* Reached: a Set under version 8.0.0 written as v2 objects with both values.
VersionDispatchV2Reached ==
    /\ op = "Set" /\ Len(args.entries) >= 1
    /\ version = [Major |-> 8, Minor |-> 0, Patch |-> 0]
    /\ variant = Ptr("v2")
    /\ args.entries[1].Mode = "layer3"
    /\ calls[1].data[1].ModeL3[1].Ipv6MssAdjust = args.entries[1].Ipv6MssAdjust

\* C6: a Delete with an argument, at any position, that is neither a string
\* nor an Entry returns a local error and invokes neither UnimportInterfaces
\* nor the transport Delete; when every argument is a string or an Entry, the
\* names handed to unimport and to delete are, position by position, the
\* string itself or the Entry's Name.
DeleteTypeHandling ==
    (op = "Delete" /\ Len(args.ids) >= 1) =>
        LET names == [i \in 1..Len(args.ids) |-> IdName(args.ids[i])]
        IN  IF AllValidIds
            THEN /\ CallsOf("UnimportInterfaces") # {}
                 /\ \A i \in CallsOf("UnimportInterfaces") : calls[i].names = names
                 /\ \A i \in CallsOf("Delete") :
                        calls[i].path[Len(calls[i].path)] = <<"entry">> \o names
            ELSE /\ calls = <<>>
                 /\ ret.err = "Unknown type sent to delete"

\* Reached: a Delete whose second argument, after a valid name, is of another
\* type: the local error, and no transport call.
DeleteTypeWitness ==
    /\ op = "Delete" /\ Len(args.ids) = 2
    /\ args.ids[1].kind = "string" /\ args.ids[2].kind = "int"
    /\ calls = <<>>
    /\ ret.err # ""

\* Reached: a Delete of a name and an Entry, both names handed on in order.
DeleteMixedReached ==
    /\ op = "Delete" /\ Len(args.ids) = 2
    /\ args.ids[1].kind = "Entry" /\ args.ids[2].kind = "string"
    /\ args.ids[1].e[1].Name # args.ids[2].s
    /\ Len(calls) = 2
    /\ calls[1].names = <<args.ids[1].e[1].Name, args.ids[2].s>>

====
